---- MODULE Spec2Model ----
(***************************************************************************)
(* Model of cfxws/exchange.py: the Binance exchange object, its two        *)
(* listen_* entry points, the payload normaliser _standardise_objects and  *)
(* the frame handler _handle_response.                                     *)
(*                                                                         *)
(* Python text (str) is modelled as a sequence of tokens, so that          *)
(* concatenation is \o, str.replace substitutes a token and the slice      *)
(* s[:-1] drops the last token.  A call that raises is modelled by the     *)
(* record Raise(e); a call that returns by Return(v).                      *)
(***************************************************************************)
EXTENDS Integers, Sequences, FiniteSets, TLC

\* ---------------------------------------------------------------- bounds
MaxPairs == 2
MaxMarkets == 2
EpochSamples == 2

\* ------------------------------------------------------- python outcomes
Raise(e) == [exc |-> e]
Return(v) == [exc |-> "none", val |-> v]
Raised(r) == r.exc # "none"

\* ----------------------------------------------------------- input sets
Symbols == {"btceth", "btcada"}
Actions == {"echo_trade", "echo_tick"}

PyNone == [tag |-> "none"]
PyList(s) == [tag |-> "list", val |-> s]
PyStr(s) == [tag |-> "str", val |-> <<s>>]

RECURSIVE SeqsUpTo(_, _)
SeqsUpTo(S, n) ==
  IF n = 0 THEN {<<>>}
  ELSE LET shorter == SeqsUpTo(S, n - 1)
       IN shorter \cup {Append(s, x) : s \in shorter, x \in S}

NoDup(s) == \A i, j \in 1..Len(s) : i # j => s[i] # s[j]

\* the values a caller may pass as `pairs`
PairsArgs ==
  {PyNone} \cup {PyList(s) : s \in SeqsUpTo(Symbols, MaxPairs)}
           \cup {PyStr(s) : s \in Symbols}

\* the catalogs loadMarkets hands back for the live exchange: its markets,
\* lower-cased and without '/', each once; the exchange lists at least one
Catalogs == {s \in SeqsUpTo(Symbols, MaxMarkets) : Len(s) > 0 /\ NoDup(s)}

\* ----------------------------------------------------- object constants
RenewPeriodS == 43200

ChannelMap ==
  [k \in {"listen_all_ticker", "listen_ticker", "listen_trade",
          "listen_agg_trade", "candles"} |->
     CASE k = "listen_all_ticker" -> <<"!ticker@arr">>
       [] k = "listen_ticker"     -> <<"<symbol>", "@ticker">>
       [] k = "listen_trade"      -> <<"<symbol>", "@trade">>
       [] k = "listen_agg_trade"  -> <<"<symbol>", "@aggTrade">>
       [] k = "candles"           -> <<"<symbol>", "@kline_", "<interval>">>]

Wssuri == <<"wss://stream.binance.com:9443">>

\* the literal '/stream?streams=' : its last character is a token of its own
StreamsPath == <<"/stream?streams", "=">>

\* the fields of the Binance object, and the last call made on it with
\* its arguments and its outcome (sessions are locals of the call that
\* makes them: the object keeps none)
VARIABLES all_markets, exchange, wssuri, channel_map, renew_period_s, last

vars == <<all_markets, exchange, wssuri, channel_map, renew_period_s, last>>

\* ------------------------------------------------------- python helpers
\* truth value of a `pairs` argument: None, [] and '' are false
Truthy(p) == p.tag # "none" /\ Len(p.val) > 0

\* isinstance(obj, cls): cls must be a type, else TypeError
IsInstance(obj, cls) ==
  IF cls.tag # "type" THEN Raise("TypeError")
  ELSE Return(obj.tag = cls.val)

ListType == [tag |-> "type", val |-> "list"]

\* str.replace(old, new) on a token sequence
Replace(s, old, new) ==
  [i \in 1..Len(s) |-> IF s[i] = old THEN new ELSE s[i]]

\* s[:-1]
DropLast(s) == IF Len(s) = 0 THEN s ELSE SubSeq(s, 1, Len(s) - 1)


\* names bound at module level of exchange.py (imports and classes)
ModuleGlobals ==
  {"time", "datetime", "json", "ccxt", "ABCMeta", "abstractmethod",
   "WSClient", "Exchange", "Binance"}

\* evaluating a bare name that is neither a local nor a module global
NameLookup(name, locals) ==
  IF name \in locals \cup ModuleGlobals THEN Return(name)
  ELSE Raise("NameError")

\* ---------------------------------------------------------- the session
\* WSClient(stream_url, renew_period_s, handle_method=, _handle_data=)
WSClient(stream_url, renew, handle_method, handle_data) ==
  [url |-> stream_url, renew_period_s |-> renew,
   handle_method |-> handle_method, handle_data |-> handle_data,
   listens |-> 0]

\* ws.listen()
Listen(ws) == [ws EXCEPT !.listens = @ + 1]

\* --------------------------------------------------------- listen_trades
\* mutant: only None is defaulted (`if pairs is None`)
ResolvePairs_NoneOnly(pairs) ==
  IF pairs.tag = "none" THEN PyList(all_markets) ELSE pairs

\* `if not pairs: pairs = self.all_markets` (the else branch validates)
ResolvePairs(pairs) ==
  IF ~Truthy(pairs) THEN PyList(all_markets) ELSE pairs

\* mutant: every channel is built from the first pair
TradeChannels_FirstPair(pairs) ==
  [i \in 1..Len(pairs) |->
     Replace(channel_map["listen_trade"], "<symbol>", pairs[1])]

\* [self.channel_map['listen_trade'].replace('<symbol>', pair)
\*  for pair in pairs]
TradeChannels(pairs) ==
  [i \in 1..Len(pairs) |->
     Replace(channel_map["listen_trade"], "<symbol>", pairs[i])]

\* stream_url = wssuri + '/stream?streams='; then += channel + '/' for each;
\* the slice stream_url[:-1] is evaluated and its value dropped
RECURSIVE AppendChannels(_, _)
AppendChannels(url, channels) ==
  IF channels = <<>> THEN url
  ELSE AppendChannels(url \o (Head(channels) \o <<"/">>), Tail(channels))

BuildStreamUrl(channels) ==
  LET stream_url == AppendChannels(wssuri \o StreamsPath, channels)
      sliced     == DropLast(stream_url)
  IN stream_url

\* mutant: the client is built and returned, listen() is never called
listen_trades_NoListen(action, pairs) ==
  LET p     == ResolvePairs(pairs)
      check == IsInstance(pairs, ListType)
  IN IF Truthy(pairs) /\ Raised(check)
       THEN [exc |-> check.exc, created |-> <<>>]
     ELSE IF Truthy(pairs) /\ ~check.val
       THEN [exc |-> "ValueError", created |-> <<>>]
     ELSE [exc |-> "none",
           created |-> <<WSClient(BuildStreamUrl(TradeChannels(p.val)),
                                  renew_period_s, action,
                                  "_handle_response")>>]

\* the whole of listen_trades: what it raises and the clients it made
listen_trades(action, pairs) ==
  LET p     == ResolvePairs(pairs)
      check == IsInstance(pairs, ListType)
  IN IF Truthy(pairs) /\ Raised(check)
       THEN [exc |-> check.exc, created |-> <<>>]
     ELSE IF Truthy(pairs) /\ ~check.val
       THEN [exc |-> "ValueError", created |-> <<>>]
     ELSE LET channels   == TradeChannels(p.val)
              stream_url == BuildStreamUrl(channels)
              ws == WSClient(stream_url, renew_period_s, action,
                             "_handle_response")
          IN [exc |-> "none", created |-> <<Listen(ws)>>]

\* ---------------------------------------------------------- listen_ticks
\* [self.channel_map['listen_ticks'].replace('<symbol>', x) for pair in pairs]
\* per element: the subscript, then the argument x, then the replace
TickChannels(pairs) ==
  IF Len(pairs) = 0 THEN Return(<<>>)
  ELSE IF "listen_ticks" \notin DOMAIN channel_map THEN Raise("KeyError")
  ELSE LET x == NameLookup("x", {"self", "action", "pairs", "pair"})
       IN IF Raised(x) THEN x
          ELSE Return([i \in 1..Len(pairs) |->
                 Replace(channel_map["listen_ticks"], "<symbol>", x.val)])

\* the whole of listen_ticks: what it raises and the clients it made
listen_ticks(action, pairs) ==
  LET p     == ResolvePairs(pairs)
      check == IsInstance(ListType, pairs)
  IN IF Truthy(pairs) /\ Raised(check)
       THEN [exc |-> check.exc, created |-> <<>>]
     ELSE IF Truthy(pairs) /\ ~check.val
       THEN [exc |-> "ValueError", created |-> <<>>]
     ELSE LET channels == TickChannels(p.val)
          IN IF Raised(channels)
               THEN [exc |-> channels.exc, created |-> <<>>]
             ELSE LET enumerated == BuildStreamUrl(channels.val)
                      stream_url ==
                        IF p = PyNone
                          THEN wssuri \o StreamsPath
                                 \o channel_map["listen_all_ticker"]
                          ELSE enumerated
                      ws == WSClient(stream_url, renew_period_s, action,
                                     "_handle_response")
                  IN [exc |-> "none", created |-> <<Listen(ws)>>]

\* ------------------------------------------------------- python values
PyInt(n) == [tag |-> "int", val |-> n]
PyText(t) == [tag |-> "str", val |-> <<t>>]
PyBool(b) == [tag |-> "bool", val |-> b]
PyDict(f) == [tag |-> "dict", val |-> f]

EmptyDict == [k \in {} |-> 0]

\* d[k]
Subscript(d, k) ==
  IF d.tag # "dict" THEN Raise("TypeError")
  ELSE IF k \notin DOMAIN d.val THEN Raise("KeyError")
  ELSE Return(d.val[k])

\* d[k] = v
SetItem(d, k, v) ==
  PyDict([x \in DOMAIN d.val \cup {k} |-> IF x = k THEN v ELSE d.val[x]])

\* datetime.datetime.fromtimestamp(t): the datetime of an epoch number
FromTimestamp(t) ==
  IF t.tag # "int" THEN Raise("TypeError")
  ELSE Return([tag |-> "datetime", epoch |-> t.val])

\* the characters of the canonical key names (a str iterates by character)
Chars(name) ==
  CASE name = "timestamp"    -> <<"t","i","m","e","s","t","a","m","p">>
    [] name = "bid"          -> <<"b","i","d">>
    [] name = "ask"          -> <<"a","s","k">>
    [] name = "symbol"       -> <<"s","y","m","b","o","l">>
    [] name = "trade_id"     -> <<"t","r","a","d","e","_","i","d">>
    [] name = "price"        -> <<"p","r","i","c","e">>
    [] name = "quantity"     -> <<"q","u","a","n","t","i","t","y">>
    [] name = "trade_time"   -> <<"t","r","a","d","e","_","t","i","m","e">>
    [] name = "market_maker" -> <<"m","a","r","k","e","t","_","m","a","k","e","r">>

\* the keymap literals, as (wire key, canonical key) in insertion order
TickKeymap ==
  << <<"E", "timestamp">>, <<"b", "bid">>, <<"a", "ask">>,
     <<"s", "symbol">> >>

TradeKeymap ==
  << <<"E", "timestamp">>, <<"t", "trade_id">>, <<"p", "price">>,
     <<"q", "quantity">>, <<"T", "trade_time">>, <<"m", "market_maker">>,
     <<"s", "symbol">> >>

\* ------------------------------------------------- _key_map_to_standard
\* the loop `for key, value in keymap.values(): new_dict[value] = tickdict[key]`
\* over the values still to visit: each value is unpacked into two names
RECURSIVE KeyMapLoop(_, _, _)
KeyMapLoop(values, tickdict, new_dict) ==
  IF values = <<>> THEN Return(new_dict)
  ELSE LET cs == Chars(Head(values))
       IN IF Len(cs) # 2 THEN Raise("ValueError")
          ELSE LET item == Subscript(tickdict, cs[1])
               IN IF Raised(item) THEN item
                  ELSE KeyMapLoop(Tail(values), tickdict,
                                  SetItem(new_dict, cs[2], item.val))

\* def __key_map_to_standard(self, keymap, tickdict), called with the
\* positional arguments args: three parameters must be bound
_key_map_to_standard(args) ==
  IF Len(args) # 3 THEN Raise("TypeError")
  ELSE LET keymap   == args[2]
           tickdict == args[3]
       IN KeyMapLoop([i \in 1..Len(keymap) |-> keymap[i][2]], tickdict,
                     PyDict(EmptyDict))

\* ------------------------------------------------- _standardise_objects
\* one branch of _standardise_objects: the rename, then datetime from the
\* event's epoch field, then 'original' and 'exchange'
StandardiseBranch(keymap, data, epoch_key, original_name, locals) ==
  LET renamed == _key_map_to_standard(<<keymap, data>>)
  IN IF Raised(renamed) THEN renamed
     ELSE LET epoch == Subscript(renamed.val, epoch_key)
          IN IF Raised(epoch) THEN epoch
             ELSE LET dt == FromTimestamp(epoch.val)
                  IN IF Raised(dt) THEN dt
                     ELSE LET original == NameLookup(original_name, locals)
                          IN IF Raised(original) THEN original
                             ELSE Return(SetItem(SetItem(SetItem(renamed.val,
                                    "datetime", dt.val),
                                    "original", original.val),
                                    "exchange", PyText(exchange)))

\* mutant: the final else is missing, every other kind is taken as a trade
_standardise_objects_NoElse(type, data) ==
  IF type = "tick"
    THEN StandardiseBranch(TickKeymap, data, "timestamp", "tickdict",
           {"self", "type", "data", "keymap", "new_tick_dict"})
  ELSE StandardiseBranch(TradeKeymap, data, "trade_time", "tradedict",
           {"self", "type", "data", "keymap", "new_trade_dict"})

_standardise_objects(type, data) ==
  IF type = "tick"
    THEN StandardiseBranch(TickKeymap, data, "timestamp", "tickdict",
           {"self", "type", "data", "keymap", "new_tick_dict"})
  ELSE IF type = "trade"
    THEN StandardiseBranch(TradeKeymap, data, "trade_time", "tradedict",
           {"self", "type", "data", "keymap", "new_trade_dict"})
  ELSE Raise("ValueError")

\* --------------------------------------------------------------- json
\* JSON text is a sequence of lexemes
Punct(c) == [tag |-> "punct", val |-> c]
NumberLit(n) == [tag |-> "number", val |-> n]
StringLit(t) == [tag |-> "string", val |-> t]
WordLit(w) == [tag |-> "literal", val |-> w]

\* json.loads: one value starting at lexeme i, and where it ends
RECURSIVE ParseValue(_, _), ParseMembers(_, _, _)
ParseValue(toks, i) ==
  IF i > Len(toks) THEN Raise("ValueError")
  ELSE LET tok == toks[i]
       IN CASE tok.tag = "number" ->
                 [exc |-> "none", val |-> PyInt(tok.val), next |-> i + 1]
            [] tok.tag = "string" ->
                 [exc |-> "none", val |-> PyText(tok.val), next |-> i + 1]
            [] tok.tag = "literal" ->
                 IF tok.val \in {"true", "false"}
                   THEN [exc |-> "none", val |-> PyBool(tok.val = "true"),
                         next |-> i + 1]
                   ELSE Raise("ValueError")
            [] tok.tag = "punct" ->
                 IF tok.val # "{" THEN Raise("ValueError")
                 ELSE IF i + 1 <= Len(toks) /\ toks[i + 1] = Punct("}")
                   THEN [exc |-> "none", val |-> PyDict(EmptyDict),
                         next |-> i + 2]
                 ELSE ParseMembers(toks, i + 1, PyDict(EmptyDict))

\* the members of an object from lexeme i on: key ':' value, then ',' or '}'
ParseMembers(toks, i, acc) ==
  IF i + 1 > Len(toks) \/ toks[i].tag # "string" \/ toks[i + 1] # Punct(":")
    THEN Raise("ValueError")
  ELSE LET v == ParseValue(toks, i + 2)
       IN IF Raised(v) THEN v
          ELSE IF v.next > Len(toks) THEN Raise("ValueError")
          ELSE LET acc2 == SetItem(acc, toks[i].val, v.val)
               IN IF toks[v.next] = Punct("}")
                    THEN [exc |-> "none", val |-> acc2, next |-> v.next + 1]
                  ELSE IF toks[v.next] = Punct(",")
                    THEN ParseMembers(toks, v.next + 1, acc2)
                  ELSE Raise("ValueError")

json_loads(text) ==
  LET r == ParseValue(text, 1)
  IN IF Raised(r) THEN r
     ELSE IF r.next # Len(text) + 1 THEN Raise("ValueError")
     ELSE Return(r.val)

\* ----------------------------------------------------- _handle_response
\* return _standardise_object(type, data = json.loads(response)['data'])
\* the callee name is evaluated first, then the argument; were the name
\* bound, the decoded payload would be handed to it
_handle_response(type, response) ==
  LET callee == NameLookup("_standardise_object", {"self", "type", "response"})
  IN IF Raised(callee) THEN callee
     ELSE LET doc == json_loads(response)
          IN IF Raised(doc) THEN doc
             ELSE LET data == Subscript(doc.val, "data")
                  IN IF Raised(data) THEN data
                     ELSE _standardise_objects(type, data.val)

\* ------------------------------------------------------------ the inputs
Kinds == {"tick", "trade", "aggTrade", "candle", "depth"}

TickWire == {"E", "b", "a", "s"}
TradeWire == {"E", "t", "p", "q", "T", "m", "s"}

\* the n-th sample value the exchange sends under a wire key
WireValue(k, n) ==
  CASE k = "E" -> PyInt(1000 * n)
    [] k = "T" -> PyInt(1000 * n - 1)
    [] k = "t" -> PyInt(n)
    [] k = "b" -> PyText(IF n = 1 THEN "0.05" ELSE "0.06")
    [] k = "a" -> PyText(IF n = 1 THEN "0.051" ELSE "0.061")
    [] k = "p" -> PyText(IF n = 1 THEN "0.0505" ELSE "0.0605")
    [] k = "q" -> PyText(IF n = 1 THEN "4.5" ELSE "7.25")
    [] k = "m" -> PyBool(n = 1)
    [] k = "s" -> PyText(IF n = 1 THEN "BTCETH" ELSE "BTCADA")
    [] k = "v" -> PyText("100.0")

\* complete tick and trade payloads, payloads short of one key, and
\* payloads carrying a key more than the keymap names
WireDomains ==
  {TickWire, TradeWire, TickWire \cup {"v"}, TradeWire \cup {"v"}}
    \cup {TickWire \ {k} : k \in TickWire}
    \cup {TradeWire \ {k} : k \in TradeWire}

RawMessages ==
  {PyDict([k \in D |-> WireValue(k, n)]) : D \in WireDomains,
                                           n \in 1..EpochSamples}

\* the exchange's serialisation of a value
KeyOrder == <<"stream", "data", "E", "t", "s", "b", "a", "p", "q", "T", "m", "v">>

RECURSIVE JsonText(_), JsonMembers(_, _, _)
JsonText(v) ==
  CASE v.tag = "int"  -> <<NumberLit(v.val)>>
    [] v.tag = "str"  -> <<StringLit(v.val[1])>>
    [] v.tag = "bool" -> <<WordLit(IF v.val THEN "true" ELSE "false")>>
    [] v.tag = "dict" -> <<Punct("{")>> \o JsonMembers(v.val, 1, TRUE)
                           \o <<Punct("}")>>

JsonMembers(f, i, first) ==
  IF i > Len(KeyOrder) THEN <<>>
  ELSE IF KeyOrder[i] \notin DOMAIN f THEN JsonMembers(f, i + 1, first)
  ELSE (IF first THEN <<>> ELSE <<Punct(",")>>)
         \o <<StringLit(KeyOrder[i]), Punct(":")>> \o JsonText(f[KeyOrder[i]])
         \o JsonMembers(f, i + 1, FALSE)

\* a combined-stream frame {"stream": name, "data": payload}
Envelope(name, payload) ==
  PyDict([k \in {"stream", "data"} |->
            IF k = "stream" THEN PyText(name) ELSE payload])

StreamNames == {"btceth@ticker", "btceth@trade"}

Frames == {JsonText(Envelope(n, d)) : n \in StreamNames, d \in RawMessages}

Init ==
  /\ all_markets \in Catalogs
  /\ exchange = "binance"
  /\ wssuri = Wssuri
  /\ channel_map = ChannelMap
  /\ renew_period_s = RenewPeriodS
  /\ last = [op |-> "init"]

ListenTrades ==
  /\ \E action \in Actions, pairs \in PairsArgs :
       LET r == listen_trades(action, pairs)
       IN last' = [op |-> "listen_trades", action |-> action,
                   pairs |-> pairs, exc |-> r.exc, created |-> r.created]
  /\ UNCHANGED <<all_markets, exchange, wssuri, channel_map, renew_period_s>>

ListenTicks ==
  /\ \E action \in Actions, pairs \in PairsArgs :
       LET r == listen_ticks(action, pairs)
       IN last' = [op |-> "listen_ticks", action |-> action,
                   pairs |-> pairs, exc |-> r.exc, created |-> r.created]
  /\ UNCHANGED <<all_markets, exchange, wssuri, channel_map, renew_period_s>>

StandardiseObjects ==
  /\ \E type \in Kinds, data \in RawMessages :
       last' = [op |-> "_standardise_objects", type |-> type, data |-> data,
                result |-> _standardise_objects(type, data)]
  /\ UNCHANGED <<all_markets, exchange, wssuri, channel_map, renew_period_s>>

HandleResponse ==
  /\ \E type \in Kinds, response \in Frames :
       last' = [op |-> "_handle_response", type |-> type,
                response |-> response,
                result |-> _handle_response(type, response)]
  /\ UNCHANGED <<all_markets, exchange, wssuri, channel_map, renew_period_s>>

Next == ListenTrades \/ ListenTicks \/ StandardiseObjects \/ HandleResponse

Spec == Init /\ [][Next]_vars


\* =============================================================== claims
\* ----- helpers of the statements

\* the part of a stream URL after wssuri + '/stream?streams='
UrlHasPrefix(url) ==
  /\ Len(url) >= Len(Wssuri \o StreamsPath)
  /\ SubSeq(url, 1, Len(Wssuri \o StreamsPath)) = Wssuri \o StreamsPath

UrlBody(url) == SubSeq(url, Len(Wssuri \o StreamsPath) + 1, Len(url))

\* str.split('/') of a token sequence: "a/b/" gives a, b and the empty text
RECURSIVE Split(_)
Split(s) ==
  IF s = <<>> THEN << <<>> >>
  ELSE LET rest == Split(Tail(s))
       IN IF Head(s) = "/" THEN << <<>> >> \o rest
          ELSE << <<Head(s)>> \o Head(rest) >> \o Tail(rest)

NonEmptySeg(seg) == seg # <<>>

\* the channel names a stream URL carries, in order
ChannelsNamed(url) == SelectSeq(Split(UrlBody(url)), NonEmptySeg)

\* p1<suffix>, ..., pn<suffix>
ChannelsOf(pairs, suffix) == [i \in 1..Len(pairs) |-> <<pairs[i], suffix>>]

IsListen == last.op \in {"listen_trades", "listen_ticks"}

OneSession == last.exc = "none" /\ Len(last.created) = 1

\* C1: for every non-empty list of pairs given to listen_trades, the URL
\* handed to the session names exactly the channels p1@trade, ..., pn@trade,
\* one per pair and in the order given.
C1_TradeChannelsInOrder ==
  (last.op = "listen_trades" /\ last.pairs.tag = "list"
     /\ Len(last.pairs.val) > 0)
  => /\ OneSession
     /\ UrlHasPrefix(last.created[1].url)
     /\ ChannelsNamed(last.created[1].url)
          = ChannelsOf(last.pairs.val, "@trade")

C1_Witness ==
  /\ last.op = "listen_trades"
  /\ last.pairs = PyList(<<"btceth", "btcada">>)
  /\ OneSession
  /\ ChannelsNamed(last.created[1].url)
       = << <<"btceth", "@trade">>, <<"btcada", "@trade">> >>

\* C2: listen_ticks called without pairs hands the session the all-tickers
\* aggregate URL wssuri + '/stream?streams=!ticker@arr'.
C2_AllTickersAggregate ==
  (last.op = "listen_ticks" /\ last.pairs = PyNone)
  => /\ OneSession
     /\ last.created[1].url = Wssuri \o StreamsPath \o <<"!ticker@arr">>

\* the event the keymap of a kind yields for a complete raw message
RECURSIVE Renamed(_, _)
Renamed(keymap, data) ==
  IF keymap = <<>> THEN PyDict(EmptyDict)
  ELSE SetItem(Renamed(Tail(keymap), data), Head(keymap)[2],
               data.val[Head(keymap)[1]])

KeymapOf(type) == IF type = "tick" THEN TickKeymap ELSE TradeKeymap

WireKeysOf(type) == {KeymapOf(type)[i][1] : i \in 1..Len(KeymapOf(type))}

ExpectedEvent(type, data) ==
  LET base  == Renamed(KeymapOf(type), data)
      epoch == base.val[IF type = "tick" THEN "timestamp" ELSE "trade_time"]
  IN SetItem(SetItem(SetItem(base,
       "datetime", [tag |-> "datetime", epoch |-> epoch.val]),
       "original", data),
       "exchange", PyText("binance"))

IsNormalise == last.op = "_standardise_objects"

Complete == WireKeysOf(last.type) \subseteq DOMAIN last.data.val

\* C3: for every raw tick or trade message carrying all required wire keys,
\* _standardise_objects returns the event whose canonical keys hold the wire
\* values, with 'exchange', 'datetime' (from the event's epoch field) and
\* 'original' (the raw input).
C3_NormalizationTotal ==
  (IsNormalise /\ last.type \in {"tick", "trade"} /\ Complete)
  => last.result = Return(ExpectedEvent(last.type, last.data))

\* C4: for every raw tick or trade message lacking a required wire key,
\* normalization fails with the malformed-payload error (the missing key)
\* and returns no event.
C4_NormalizationRejects ==
  (IsNormalise /\ last.type \in {"tick", "trade"} /\ ~Complete)
  => last.result = Raise("KeyError")

\* C5 as stated: a call with pairs = [] fails and opens no session.
C5_EmptyPairsRejected ==
  (IsListen /\ last.pairs = PyList(<<>>))
  => last.exc # "none" /\ last.created = <<>>

\* C5 as amended: a call with pairs = [] is treated like an absent argument:
\* pairs is replaced by the full catalog all_markets, so the call ends as
\* the same call with pairs = None ends, and listen_trades opens a session
\* on the channels of all_markets.
C5_EmptyPairsDefaulted ==
  (IsListen /\ last.pairs = PyList(<<>>))
  => LET r == IF last.op = "listen_trades"
                THEN listen_trades(last.action, PyNone)
                ELSE listen_ticks(last.action, PyNone)
     IN /\ last.exc = r.exc
        /\ last.created = r.created
        /\ last.op = "listen_trades"
             => /\ OneSession
                /\ ChannelsNamed(last.created[1].url)
                     = ChannelsOf(all_markets, "@trade")

C5_Witness ==
  /\ last.op = "listen_trades"
  /\ last.pairs = PyList(<<>>)
  /\ Len(all_markets) = 2
  /\ OneSession
  /\ Len(ChannelsNamed(last.created[1].url)) = 2

\* C6: for every non-empty list of pairs given to listen_ticks, the call
\* passes validation, finds the tick template and builds exactly the
\* channels p1@ticker, ..., pn@ticker in order, raising nothing.
C6_TickChannelsInOrder ==
  (last.op = "listen_ticks" /\ last.pairs.tag = "list"
     /\ Len(last.pairs.val) > 0)
  => /\ OneSession
     /\ ChannelsNamed(last.created[1].url)
          = ChannelsOf(last.pairs.val, "@ticker")

\* C7: for every kind other than 'tick' and 'trade', and every raw message,
\* _standardise_objects raises ValueError and returns no event.
C7_UnknownKindRejected ==
  (IsNormalise /\ last.type \notin {"tick", "trade"})
  => last.result = Raise("ValueError")

C7_Witness ==
  /\ IsNormalise
  /\ last.type = "candle"
  /\ TickWire \subseteq DOMAIN last.data.val
  /\ last.result = Raise("ValueError")

\* C8: for every frame that is the JSON text of an envelope
\* {"stream": name, "data": payload}, _handle_response(kind, frame) ends as
\* normalizing payload for that kind ends.
C8_HandlerUnwraps ==
  last.op = "_handle_response"
  => LET doc == json_loads(last.response)
     IN /\ ~Raised(doc)
        /\ last.result = _standardise_objects(last.type, doc.val.val["data"])

\* C9: every stream URL handed to a session is wssuri + '/stream?streams='
\* followed by N >= 1 channel names with '/' only between two of them.
C9_SeparatorOnlyBetween ==
  (IsListen /\ last.exc = "none")
  => \A c \in 1..Len(last.created) :
       LET body == UrlBody(last.created[c].url)
       IN /\ UrlHasPrefix(last.created[c].url)
          /\ Len(body) >= 1
          /\ body[1] # "/"
          /\ body[Len(body)] # "/"
          /\ \A i \in 1..(Len(body) - 1) : ~(body[i] = "/" /\ body[i + 1] = "/")

\* the pairs a listen call works on
EffectivePairs ==
  IF last.pairs.tag = "list" /\ Len(last.pairs.val) > 0
    THEN last.pairs.val ELSE all_markets

\* C10 (outcome of one call): every listen call either raises with no WSClient constructed, or
\* constructs exactly one WSClient with the built URL, the caller's action
\* and a renewal period of 43200 s and calls its listen() exactly once; the
\* object's all_markets, channel_map and renew_period_s do not change.
C10_CallOutcome ==
  IsListen
  => \/ last.exc # "none" /\ last.created = <<>>
     \/ /\ OneSession
        /\ UrlHasPrefix(last.created[1].url)
        /\ ChannelsNamed(last.created[1].url)
             = ChannelsOf(EffectivePairs,
                          IF last.op = "listen_trades" THEN "@trade"
                                                       ELSE "@ticker")
        /\ last.created[1].handle_method = last.action
        /\ last.created[1].renew_period_s = 43200
        /\ last.created[1].listens = 1

\* C10, whole: the outcome above holds after every listen call, and no step
\* changes all_markets, channel_map or renew_period_s.
C10_OneSessionOrNone ==
  /\ []C10_CallOutcome
  /\ [][/\ all_markets' = all_markets
        /\ channel_map' = channel_map
        /\ renew_period_s' = renew_period_s]_vars

C10_Witness ==
  /\ last.op = "listen_trades"
  /\ last.pairs = PyList(<<"btcada">>)
  /\ OneSession
  /\ last.created[1].listens = 1
  /\ last.created[1].renew_period_s = 43200
  /\ last.created[1].handle_method = last.action

====
